---------------------------- MODULE Spec2Model ----------------------------
(***************************************************************************)
(* A model of tictactoe.py: the rules engine (player, actions, result,     *)
(* winner, terminal, utility) and the minimax search (minimax, max_value,  *)
(* min_value), together with the caller that holds a board and calls them. *)
(*                                                                         *)
(* A board is a function over 0..2 of functions over 0..2, indexed as the  *)
(* source indexes its list of lists.  Python's None is "None" where it is  *)
(* a cell or a winner, and the empty tuple where it is an action.          *)
(***************************************************************************)
EXTENDS Integers, Sequences, FiniteSets, TLC

VARIABLES
    cur,     \* the board object the caller holds
    call,    \* the last call: its name, arguments, result and effect
    moves,   \* how many calls of result have returned a board since initial_state
    legal    \* TRUE while result has only been applied to non-terminal boards

vars == <<cur, call, moves, legal>>

---------------------------------------------------------------------------
(* Bounds of the model *)

\* Action arguments range over (-Margin .. 2 + Margin) in each index.
Margin == 1

\* How many enumeration orders of a set of actions are tried: the row-major
\* order, its reverse, the row-major order rotated by one cell, its reverse,
\* the row-major order rotated by two cells, and so on.
NumOrders == 3

---------------------------------------------------------------------------
(* Values *)

X == "X"
O == "O"
None == "None"
EMPTY == None
NoAction == <<>>

Idx == 0..2
Cells == Idx \X Idx
Marks == {X, O, EMPTY}
AllBoards == [Idx -> [Idx -> Marks]]
ActionArgs == ((0 - Margin)..(2 + Margin)) \X ((0 - Margin)..(2 + Margin))

initial_state == [i \in Idx |-> [j \in Idx |-> EMPTY]]

---------------------------------------------------------------------------
(* Rules engine *)

\* sum(row.count(m) for row in board)
count(board, m) == Cardinality({c \in Cells : board[c[1]][c[2]] = m})

player_never_o(board) == IF count(board, X) >= count(board, O) THEN X ELSE O
player_strict(board) == IF count(board, X) < count(board, O) THEN X ELSE O
player(board) == IF count(board, X) <= count(board, O) THEN X ELSE O

actions_short(board) == {c \in Idx \X (0..1) : board[c[1]][c[2]] = EMPTY}
actions(board) == {c \in Cells : board[c[1]][c[2]] = EMPTY}

\* A call of result: whether it raised, the argument object after the call
\* and, when it returned, the board it returned.
result_unchecked(board, action) ==
    IF action \notin Cells
    THEN [raised |-> TRUE, board |-> board]
    ELSE [raised |-> FALSE, board |-> board,
          ret |-> [board EXCEPT ![action[1]][action[2]] = player(board)]]
result_inplace(board, action) ==
    IF action \notin actions(board)
    THEN [raised |-> TRUE, board |-> board]
    ELSE LET new_board == [board EXCEPT ![action[1]][action[2]] = player(board)]
         IN  [raised |-> FALSE, board |-> new_board, ret |-> new_board]
result_no_mark(board, action) ==
    IF action \notin actions(board)
    THEN [raised |-> TRUE, board |-> board]
    ELSE [raised |-> FALSE, board |-> board, ret |-> board]
result_until_won(board, action) ==
    IF \/ action \notin actions(board)
       \/ \E p \in {X, O} :
              \/ \E i \in Idx : \A j \in Idx : board[i][j] = p
              \/ \E j \in Idx : \A i \in Idx : board[i][j] = p
              \/ \A i \in Idx : board[i][i] = p
              \/ \A i \in Idx : board[i][2 - i] = p
    THEN [raised |-> TRUE, board |-> board]
    ELSE LET new_board == [board EXCEPT ![action[1]][action[2]] = player(board)]
         IN  [raised |-> FALSE, board |-> board, ret |-> new_board]
result(board, action) ==
    IF action \notin actions(board)
    THEN [raised |-> TRUE, board |-> board]
    ELSE LET new_board == [board EXCEPT ![action[1]][action[2]] = player(board)]
         IN  [raised |-> FALSE, board |-> board, ret |-> new_board]

\* a == b == c != EMPTY
Three_firsttwo(a, b, c) == a = b /\ b # EMPTY
Three(a, b, c) == a = b /\ b = c /\ c # EMPTY

RECURSIVE winner_from(_, _)
winner_from(board, i) ==
    IF i > 2
    THEN IF Three(board[0][0], board[1][1], board[2][2]) THEN board[0][0]
         ELSE IF Three(board[0][2], board[1][1], board[2][0]) THEN board[0][2]
         ELSE None
    ELSE IF Three(board[i][0], board[i][1], board[i][2]) THEN board[i][0]
         ELSE IF Three(board[0][i], board[1][i], board[2][i]) THEN board[0][i]
         ELSE winner_from(board, i + 1)

winner_skipfirst(board) == winner_from(board, 1)
winner(board) == winner_from(board, 0)

terminal_winonly(board) == winner(board) # None
terminal_fullonly(board) ==
    IF \A c \in Cells : board[c[1]][c[2]] # EMPTY THEN TRUE ELSE FALSE
terminal(board) ==
    IF winner(board) # None THEN TRUE
    ELSE IF \A c \in Cells : board[c[1]][c[2]] # EMPTY THEN TRUE
    ELSE FALSE

utility_negated(board) ==
    IF winner(board) = X THEN -1
    ELSE IF winner(board) = O THEN 1
    ELSE 0
utility_swapped(board) ==
    IF winner(board) = X THEN 1
    ELSE IF winner(board) = O THEN 0
    ELSE -1
utility(board) ==
    IF winner(board) = X THEN 1
    ELSE IF winner(board) = O THEN -1
    ELSE 0

---------------------------------------------------------------------------
(* Minimax search *)

\* float("-inf") and float("inf"): below and above every utility
NegInf == -2
PosInf == 2

\* actions(board) is a Python set, and the order in which "for action in
\* actions(board)" enumerates it is not fixed by the source.  An enumeration
\* order is a sequence of the cells; a set of cells is enumerated in the
\* order in which its members appear in that sequence.
Cell(n) == <<n \div 3, n % 3>>
Forward(shift) == [k \in 1..9 |-> Cell((k - 1 + shift) % 9)]
Backward(shift) == [k \in 1..9 |-> Forward(shift)[10 - k]]
OrderNo(n) ==
    IF n % 2 = 1 THEN Forward((n - 1) \div 2) ELSE Backward((n - 2) \div 2)
Orders == {OrderNo(n) : n \in 1..NumOrders}

enumerate(S, ord) == SelectSeq(ord, LAMBDA c : c \in S)

RECURSIVE max_value(_, _), min_value(_, _), max_loop(_, _, _, _, _, _),
          min_loop(_, _, _, _, _, _), max_loop_copied(_, _, _, _, _, _),
          min_loop_break_at_one(_, _, _, _, _, _),
          max_loop_break_at_zero(_, _, _, _, _, _),
          min_loop_no_update(_, _, _, _, _, _)

\* The loop of max_value from the k-th enumerated action on, with the
\* values v and best_action have on entry to that iteration.
max_loop_copied(board, ord, todo, k, v, best_action) ==
    IF k > Len(todo) THEN <<v, best_action>>
    ELSE LET action == todo[k]
             min_val == min_value(result(board, action).ret, ord)[1]
             v2 == IF min_val < v THEN min_val ELSE v
             best2 == IF min_val < v THEN action ELSE best_action
         IN  IF v2 = 1 THEN <<v2, best2>>
             ELSE max_loop_copied(board, ord, todo, k + 1, v2, best2)
max_loop_break_at_zero(board, ord, todo, k, v, best_action) ==
    IF k > Len(todo) THEN <<v, best_action>>
    ELSE LET action == todo[k]
             min_val == min_value(result(board, action).ret, ord)[1]
             v2 == IF min_val > v THEN min_val ELSE v
             best2 == IF min_val > v THEN action ELSE best_action
         IN  IF v2 = 0 THEN <<v2, best2>>
             ELSE max_loop_break_at_zero(board, ord, todo, k + 1, v2, best2)
max_loop(board, ord, todo, k, v, best_action) ==
    IF k > Len(todo) THEN <<v, best_action>>
    ELSE LET action == todo[k]
             min_val == min_value(result(board, action).ret, ord)[1]
             v2 == IF min_val > v THEN min_val ELSE v
             best2 == IF min_val > v THEN action ELSE best_action
         IN  IF v2 = 1 THEN <<v2, best2>>
             ELSE max_loop(board, ord, todo, k + 1, v2, best2)

min_loop_break_at_one(board, ord, todo, k, v, best_action) ==
    IF k > Len(todo) THEN <<v, best_action>>
    ELSE LET action == todo[k]
             max_val == max_value(result(board, action).ret, ord)[1]
             v2 == IF max_val < v THEN max_val ELSE v
             best2 == IF max_val < v THEN action ELSE best_action
         IN  IF v2 = 1 THEN <<v2, best2>>
             ELSE min_loop_break_at_one(board, ord, todo, k + 1, v2, best2)
min_loop_no_update(board, ord, todo, k, v, best_action) ==
    IF k > Len(todo) THEN <<v, best_action>>
    ELSE LET action == todo[k]
             max_val == max_value(result(board, action).ret, ord)[1]
             best2 == IF max_val < v THEN action ELSE best_action
         IN  IF v = -1 THEN <<v, best2>>
             ELSE min_loop_no_update(board, ord, todo, k + 1, v, best2)
min_loop(board, ord, todo, k, v, best_action) ==
    IF k > Len(todo) THEN <<v, best_action>>
    ELSE LET action == todo[k]
             max_val == max_value(result(board, action).ret, ord)[1]
             v2 == IF max_val < v THEN max_val ELSE v
             best2 == IF max_val < v THEN action ELSE best_action
         IN  IF v2 = -1 THEN <<v2, best2>>
             ELSE min_loop(board, ord, todo, k + 1, v2, best2)

max_value_from_zero(board, ord) ==
    IF terminal(board) THEN <<utility(board), NoAction>>
    ELSE max_loop(board, ord, enumerate(actions(board), ord), 1, 0, NoAction)
max_value(board, ord) ==
    IF terminal(board) THEN <<utility(board), NoAction>>
    ELSE max_loop(board, ord, enumerate(actions(board), ord), 1, NegInf, NoAction)

min_value(board, ord) ==
    IF terminal(board) THEN <<utility(board), NoAction>>
    ELSE min_loop(board, ord, enumerate(actions(board), ord), 1, PosInf, NoAction)

\* A call of minimax: what it returns and, when it got past line 140, its
\* local variable value.
minimax_locals_swapped(board, ord) ==
    IF terminal(board) THEN [move |-> NoAction]
    ELSE LET vm == IF player(board) = X THEN min_value(board, ord)
                   ELSE max_value(board, ord)
         IN  [value |-> vm[1], move |-> vm[2]]
minimax_locals(board, ord) ==
    IF terminal(board) THEN [move |-> NoAction]
    ELSE LET vm == IF player(board) = X THEN max_value(board, ord)
                   ELSE min_value(board, ord)
         IN  [value |-> vm[1], move |-> vm[2]]

minimax(board, ord) == minimax_locals(board, ord).move

---------------------------------------------------------------------------
(* The caller: a game advanced from initial_state by calls of result, with *)
(* any action argument, on any board.  Nothing in the source catches the   *)
(* exception result raises: the game ends with it.                         *)

Init ==
    /\ cur = initial_state
    /\ call = [op |-> "initial_state"]
    /\ moves = 0
    /\ legal = TRUE

ApplyAction(a) ==
    LET r == result(cur, a)
    IN  /\ ~(call.op = "result" /\ call.out.raised)
        /\ call' = [op |-> "result", arg |-> cur, action |-> a, out |-> r]
        /\ cur' = IF r.raised THEN r.board ELSE r.ret
        /\ moves' = IF r.raised THEN moves ELSE moves + 1
        /\ legal' = (legal /\ (r.raised \/ ~terminal(cur)))

Next == \E a \in ActionArgs : ApplyAction(a)

Spec == Init /\ [][Next]_vars

---------------------------------------------------------------------------
(* The rules engine called once on a board, for every 3x3 board *)

InitBoards ==
    /\ cur \in AllBoards
    /\ call = [op |-> "none"]
    /\ moves = 0
    /\ legal = TRUE

CallWinner ==
    /\ call.op = "none"
    /\ call' = [op |-> "winner", arg |-> cur, ret |-> winner(cur)]
    /\ UNCHANGED <<cur, moves, legal>>

CallTerminal ==
    /\ call.op = "none"
    /\ call' = [op |-> "terminal", arg |-> cur, ret |-> terminal(cur)]
    /\ UNCHANGED <<cur, moves, legal>>

CallUtility ==
    /\ call.op = "none"
    /\ call' = [op |-> "utility", arg |-> cur, ret |-> utility(cur)]
    /\ UNCHANGED <<cur, moves, legal>>

CallResult(a) ==
    /\ call.op = "none"
    /\ LET r == result(cur, a)
       IN  /\ call' = [op |-> "result", arg |-> cur, action |-> a, out |-> r]
           /\ cur' = r.board
    /\ UNCHANGED <<moves, legal>>

NextBoards ==
    \/ CallWinner
    \/ CallTerminal
    \/ CallUtility
    \/ \E a \in ActionArgs : CallResult(a)

SpecBoards == InitBoards /\ [][NextBoards]_vars

---------------------------------------------------------------------------
(* The search called on every board a game can reach *)

Advance(a) ==
    LET r == result(cur, a)
    IN  /\ ~r.raised
        /\ call' = [op |-> "advance"]
        /\ cur' = r.ret
        /\ moves' = moves + 1
        /\ legal' = (legal /\ ~terminal(cur))

BestAction(ord) ==
    /\ call.op # "minimax"
    /\ \E m \in {minimax_locals(cur, ord)} :
           call' = [op |-> "minimax", arg |-> cur, order |-> ord,
                    ret |-> m.move, locals |-> m]
    /\ UNCHANGED <<cur, moves, legal>>

NextSearch ==
    \/ \E a \in Cells : Advance(a)
    \/ \E ord \in Orders : BestAction(ord)

SpecSearch == Init /\ [][NextSearch]_vars

---------------------------------------------------------------------------
(* Self-play: both sides move as minimax says until the board is terminal *)

SelfPlay(ord) ==
    /\ ~terminal(cur)
    /\ ~(call.op = "result" /\ call.out.raised)
    /\ \E a \in {minimax(cur, ord)} : \E r \in {result(cur, a)} :
           /\ call' = [op |-> "result", arg |-> cur, action |-> a, out |-> r]
           /\ cur' = IF r.raised THEN r.board ELSE r.ret
           /\ moves' = IF r.raised THEN moves ELSE moves + 1
           /\ legal' = legal

NextSelfPlay == \E ord \in Orders : SelfPlay(ord)

SpecSelfPlay == Init /\ [][NextSelfPlay]_vars

---------------------------------------------------------------------------
(* The scenario board [[X, X, EMPTY], [O, O, EMPTY], [EMPTY, EMPTY, EMPTY]]: *)
(* minimax is called on it under every enumeration order of its actions,   *)
(* the action it returns is applied, and max_value is called on the board  *)
(* that results *)

ScenarioBoard ==
    [i \in Idx |-> [j \in Idx |->
        IF i = 0 /\ j < 2 THEN X ELSE IF i = 1 /\ j < 2 THEN O ELSE EMPTY]]

\* Every order in which the members of the set S can be enumerated
AllOrders(S) ==
    {ord \in [1..Cardinality(S) -> S] :
        \A k1 \in DOMAIN ord : \A k2 \in DOMAIN ord : ord[k1] = ord[k2] => k1 = k2}

InitScenario ==
    /\ cur = ScenarioBoard
    /\ call = [op |-> "none"]
    /\ moves = count(ScenarioBoard, X) + count(ScenarioBoard, O)
    /\ legal = TRUE

ScenarioMinimax(ord) ==
    /\ call.op = "none"
    /\ call' = [op |-> "minimax", arg |-> cur, order |-> ord,
                ret |-> minimax(cur, ord)]
    /\ UNCHANGED <<cur, moves, legal>>

ScenarioApply ==
    /\ call.op = "minimax"
    /\ \E r \in {result(cur, call.ret)} :
           /\ call' = [op |-> "result", arg |-> cur, action |-> call.ret, out |-> r]
           /\ cur' = IF r.raised THEN r.board ELSE r.ret
           /\ moves' = IF r.raised THEN moves ELSE moves + 1
           /\ legal' = legal

ScenarioMaxValue(ord) ==
    /\ call.op = "result"
    /\ call' = [op |-> "max_value", arg |-> cur, order |-> ord,
                ret |-> max_value(cur, ord)]
    /\ UNCHANGED <<cur, moves, legal>>

NextScenario ==
    \/ \E ord \in AllOrders(actions(cur)) : ScenarioMinimax(ord)
    \/ ScenarioApply
    \/ \E ord \in AllOrders(actions(cur)) : ScenarioMaxValue(ord)

SpecScenario == InitScenario /\ [][NextScenario]_vars

---------------------------------------------------------------------------
(* One side moves as minimax says, the other plays any of its actions *)

InitVersus ==
    /\ cur = initial_state
    /\ call \in {[op |-> "initial_state", engine |-> p] : p \in {X, O}}
    /\ moves = 0
    /\ legal = TRUE

EngineMove(ord) ==
    /\ ~terminal(cur)
    /\ ~(call.op = "result" /\ call.out.raised)
    /\ player(cur) = call.engine
    /\ \E a \in {minimax(cur, ord)} : \E r \in {result(cur, a)} :
           /\ call' = [op |-> "result", arg |-> cur, action |-> a, out |-> r,
                       engine |-> call.engine]
           /\ cur' = IF r.raised THEN r.board ELSE r.ret
           /\ moves' = IF r.raised THEN moves ELSE moves + 1
           /\ legal' = legal

OpponentMove(a) ==
    /\ ~terminal(cur)
    /\ ~(call.op = "result" /\ call.out.raised)
    /\ player(cur) # call.engine
    /\ a \in actions(cur)
    /\ \E r \in {result(cur, a)} :
           /\ call' = [op |-> "result", arg |-> cur, action |-> a, out |-> r,
                       engine |-> call.engine]
           /\ cur' = IF r.raised THEN r.board ELSE r.ret
           /\ moves' = IF r.raised THEN moves ELSE moves + 1
           /\ legal' = legal

NextVersus ==
    \/ \E ord \in Orders : EngineMove(ord)
    \/ \E a \in Cells : OpponentMove(a)

SpecVersus == InitVersus /\ [][NextVersus]_vars

---------------------------------------------------------------------------
(* The chains of nested calls of a search.  minimax, called on a board that *)
(* is not terminal, calls max_value or min_value on it; max_value on a     *)
(* board that is not terminal calls min_value(result(board, action)) for   *)
(* the actions its loop comes to, and min_value calls max_value likewise.  *)
(* Whatever action is enumerated first is always come to, so over the      *)
(* enumeration orders every action of actions(board) heads a nested call.  *)
(* call.arg is the board of the innermost call and call.depth the number   *)
(* of nested calls between it and the call minimax made.                   *)

\* lines 142-145: the function minimax calls
entry_swapped(board) == IF player(board) = X THEN "min_value" ELSE "max_value"
entry(board) == IF player(board) = X THEN "max_value" ELSE "min_value"

\* lines 165 and 189: the function each of the two calls in its loop
callee(fn) == IF fn = "max_value" THEN "min_value" ELSE "max_value"

Searching == call.op \in {"max_value", "min_value"}

ChainAdvance(a) ==
    /\ ~Searching
    /\ Advance(a)

Enter ==
    /\ ~Searching
    /\ ~terminal(cur)
    /\ call' = [op |-> entry(cur), arg |-> cur, depth |-> 0]
    /\ UNCHANGED <<cur, moves, legal>>

Descend(action) ==
    /\ Searching
    /\ ~terminal(call.arg)
    /\ action \in actions(call.arg)
    /\ call' = [op |-> callee(call.op), arg |-> result(call.arg, action).ret,
                depth |-> call.depth + 1]
    /\ UNCHANGED <<cur, moves, legal>>

NextChain ==
    \/ \E a \in Cells : ChainAdvance(a)
    \/ Enter
    \/ \E action \in Cells : Descend(action)

SpecChain == Init /\ [][NextChain]_vars

---------------------------------------------------------------------------
(* Properties *)

Opponent(p) == IF p = X THEN O ELSE X
Full(b) == \A c \in Cells : b[c[1]][c[2]] # EMPTY

\* The 3 rows, 3 columns and 2 diagonals
Lines ==
    {{<<i, j>> : j \in Idx} : i \in Idx}
        \cup {{<<i, j>> : i \in Idx} : j \in Idx}
        \cup {{<<i, i>> : i \in Idx}, {<<i, 2 - i>> : i \in Idx}}
HasLine(b, p) == \E line \in Lines : \A c \in line : b[c[1]][c[2]] = p

Returned == call.op = "result" /\ ~call.out.raised
Raised == call.op = "result" /\ call.out.raised

\* C2: player(initial_state()) is X, and every call of result that returns a
\* board returns one whose player is the opponent of the player of the board
\* it was given, so that after k such calls from initial_state() the player
\* is X for even k and O for odd k.
C2_PlayerAlternates ==
    /\ call.op = "initial_state" => player(cur) = X
    /\ Returned => player(call.out.ret) = Opponent(player(call.arg))
    /\ player(cur) = (IF moves % 2 = 0 THEN X ELSE O)

C2_Witness ==
    /\ Returned
    /\ moves = 6
    /\ player(call.arg) = O
    /\ player(cur) = X

\* C3: a call of result with an action that names an occupied cell, or whose
\* row or column index is outside 0..2, raises; it returns no board and
\* leaves the board it was given as it was.
C3_InvalidActionRaises ==
    call.op = "result" =>
        LET a == call.action
            invalid == IF a \in Cells THEN call.arg[a[1]][a[2]] # EMPTY ELSE TRUE
        IN  invalid =>
                /\ call.out.raised
                /\ "ret" \notin DOMAIN call.out
                /\ call.out.board = call.arg
                /\ cur = call.arg

C3_Witness ==
    /\ Raised
    /\ call.action \in Cells
    /\ call.arg[call.action[1]][call.action[2]] = O
    /\ count(call.arg, EMPTY) = 3

\* C4: a call of result with an action (i, j) of actions(board) returns a
\* board whose cell (i, j) holds player(board) and whose other cells are
\* those of board, and leaves the board it was given as it was.
C4_ResultFrame ==
    (call.op = "result" /\ call.action \in Cells
        /\ call.arg[call.action[1]][call.action[2]] = EMPTY) =>
        /\ ~call.out.raised
        /\ call.out.ret[call.action[1]][call.action[2]] = player(call.arg)
        /\ \A c \in Cells \ {call.action} :
               call.out.ret[c[1]][c[2]] = call.arg[c[1]][c[2]]
        /\ call.out.board = call.arg
        /\ cur = call.arg

C4_Witness ==
    /\ Returned
    /\ count(call.arg, X) = 2
    /\ count(call.arg, O) = 1
    /\ count(call.out.ret, O) = 2
    /\ call.out.board = call.arg

\* C1: self-play from initial_state(), each side applying the action minimax
\* returns, under any of the enumeration orders, always ends, and ends on a
\* board with no winner and utility 0.
C1_SelfPlayEndsInDraw ==
    /\ ~Raised
    /\ moves + count(cur, EMPTY) = 9
    /\ terminal(cur) => (winner(cur) = None /\ utility(cur) = 0)

C1_Witness ==
    /\ Returned
    /\ moves = 9
    /\ terminal(cur)
    /\ winner(cur) = None
    /\ utility(cur) = 0

\* C5: minimax returns None exactly on the terminal boards: on every board
\* that result calls reach from initial_state(), it returns None if the
\* board is terminal and an action otherwise.
C5_NoneIffTerminal ==
    call.op = "minimax" => ((call.ret = NoAction) <=> terminal(call.arg))

C5_Witness ==
    /\ call.op = "minimax"
    /\ ~terminal(call.arg)
    /\ count(call.arg, EMPTY) = 4
    /\ call.ret \in actions(call.arg)

\* C6: terminal(board) is TRUE exactly when winner(board) is a player or no
\* cell of board is EMPTY.
C6_TerminalIff ==
    call.op = "terminal" =>
        (call.ret <=> (winner(call.arg) \in {X, O} \/ Full(call.arg)))

C6_Witness ==
    /\ call.op = "terminal"
    /\ call.ret
    /\ Full(call.arg)
    /\ ~HasLine(call.arg, X)
    /\ ~HasLine(call.arg, O)

\* C7: on a terminal board utility is 1 exactly when the winner is X, -1
\* exactly when the winner is O and 0 exactly when the board is full with
\* no winner; on a board that is not terminal it is 0.
C7_UtilityMatchesWinner ==
    call.op = "utility" =>
        LET b == call.arg
            u == call.ret
        IN  /\ u \in {-1, 0, 1}
            /\ terminal(b) =>
                   /\ (u = 1) <=> (winner(b) = X)
                   /\ (u = -1) <=> (winner(b) = O)
                   /\ (u = 0) <=> (Full(b) /\ winner(b) = None)
            /\ ~terminal(b) => u = 0

C7_Witness ==
    /\ call.op = "utility"
    /\ call.ret = -1
    /\ HasLine(call.arg, O)
    /\ ~Full(call.arg)

\* C8: on a board where at most one player has a completed line, winner
\* returns the player who has one of the 8 lines, and None when no line is
\* held by one player.
C8_WinnerFindsLine ==
    call.op = "winner" =>
        LET b == call.arg
        IN  ~(HasLine(b, X) /\ HasLine(b, O)) =>
                /\ HasLine(b, X) => call.ret = X
                /\ HasLine(b, O) => call.ret = O
                /\ (~HasLine(b, X) /\ ~HasLine(b, O)) => call.ret = None

C8_Witness ==
    /\ call.op = "winner"
    /\ call.ret = O
    /\ \A c \in Cells : (call.arg[c[1]][c[2]] = O) <=> (c[1] + c[2] = 2)

\* C9: on the scenario board minimax returns (0, 2) under every enumeration
\* order of its five actions, the board that applying (0, 2) produces has
\* winner X, and max_value on that board returns (1, None).
C9_ScenarioWin ==
    /\ call.op = "minimax" => (call.arg = ScenarioBoard /\ call.ret = <<0, 2>>)
    /\ call.op = "result" =>
           /\ call.action = <<0, 2>>
           /\ ~call.out.raised
           /\ winner(call.out.ret) = X
           /\ cur = call.out.ret
    /\ call.op = "max_value" =>
           /\ call.arg = result(ScenarioBoard, <<0, 2>>).ret
           /\ call.ret = <<1, NoAction>>

C9_Witness ==
    /\ call.op = "max_value"
    /\ call.ret = <<1, NoAction>>
    /\ call.arg[0][2] = X
    /\ count(call.arg, EMPTY) = 4

\* C10: actions(board) is the set of the (row, column) pairs whose cell is
\* EMPTY, and after k calls of result that returned a board, starting from
\* initial_state(), it has 9 - k elements.
C10_LegalActionsCount ==
    /\ actions(cur) \subseteq Cells
    /\ \A i \in Idx : \A j \in Idx :
           (<<i, j>> \in actions(cur)) <=> (cur[i][j] = EMPTY)
    /\ Cardinality(actions(cur)) = 9 - moves

C10_Witness ==
    /\ Returned
    /\ moves = 1
    /\ Cardinality(actions(call.arg)) = 9
    /\ Cardinality(actions(cur)) = 8

\* The full board [[X, O, X], [O, X, O], [O, X, O]]
DrawBoard ==
    [i \in Idx |-> [j \in Idx |->
        IF i = 2 THEN (IF j = 1 THEN X ELSE O)
        ELSE IF (i + j) % 2 = 0 THEN X ELSE O]]

\* C11: on the full board [[X, O, X], [O, X, O], [O, X, O]] winner returns
\* None, terminal returns True and utility returns 0.
C11_DrawBoard ==
    call.op \in {"winner", "terminal", "utility"} /\ call.arg = DrawBoard =>
        /\ call.op = "winner" => call.ret = None
        /\ call.op = "terminal" => call.ret = TRUE
        /\ call.op = "utility" => call.ret = 0

C11_Witness ==
    /\ call.op = "utility"
    /\ call.arg = DrawBoard
    /\ call.ret = 0
    /\ winner(call.arg) = None
    /\ terminal(call.arg)
    /\ \A line \in Lines : \E c \in line : call.arg[c[1]][c[2]] # call.arg[0][0]

\* C13: when one side, X or O, always moves as minimax says and the other
\* plays any of its actions, no move raises and the game never comes to a
\* board whose winner is the other side.
C13_EngineNeverLoses ==
    /\ ~Raised
    /\ winner(cur) # Opponent(call.engine)

C13_Witness ==
    /\ Returned
    /\ call.engine = O
    /\ terminal(cur)
    /\ winner(cur) = O
    /\ player(call.arg) = O

\* C14: on every board of a game in which result was only applied to boards
\* that were not terminal, X and O do not both have a completed line.
C14_NoDoubleWinner ==
    legal => ~(HasLine(cur, X) /\ HasLine(cur, O))

C14_Witness ==
    /\ legal
    /\ Returned
    /\ HasLine(cur, O)
    /\ ~HasLine(cur, X)
    /\ count(cur, EMPTY) = 1

\* C18: on every board of a game in which result was only applied to boards
\* that were not terminal, X has as many marks as O or one more, and a
\* winner is never the player whose turn it is.
C18_WinnerMovedLast ==
    legal =>
        /\ count(cur, X) - count(cur, O) \in {0, 1}
        /\ winner(cur) \in {X, O} => winner(cur) # player(cur)

C18_Witness ==
    /\ legal
    /\ Returned
    /\ winner(cur) = O
    /\ player(cur) = X
    /\ count(cur, X) = count(cur, O)

\* C19: result does not look at terminal: on a board that has a winner and
\* EMPTY cells, actions is not empty and result returns a board for each of
\* its members; going on past a win reaches a board on which both X and O
\* have a completed line (the witness).
C19_ResultPastWin ==
    /\ (winner(cur) \in {X, O} /\ ~Full(cur)) => actions(cur) # {}
    /\ (call.op = "result" /\ winner(call.arg) \in {X, O}
            /\ call.action \in actions(call.arg)) =>
           /\ ~call.out.raised
           /\ cur = call.out.ret
           /\ ~legal

C19_Witness ==
    /\ Returned
    /\ winner(call.arg) \in {X, O}
    /\ HasLine(cur, X)
    /\ HasLine(cur, O)

\* The minimax value of every board that result calls can reach, by a search
\* with no early exit: the utility of a terminal board, else the largest
\* value of a successor when X is to move and the smallest when O is.  The
\* table is built from the full boards back to the empty one.
Successors(b) ==
    {[b EXCEPT ![c[1]][c[2]] = player(b)] :
        c \in {c \in Cells : b[c[1]][c[2]] = EMPTY}}
RECURSIVE LevelsFrom(_)
LevelsFrom(levels) ==
    IF Len(levels) = 10 THEN levels
    ELSE LevelsFrom(Append(levels,
                           UNION {Successors(b) : b \in levels[Len(levels)]}))
Levels == LevelsFrom(<<{initial_state}>>)
Level(n) == Levels[n + 1]
LargestOf(S) == CHOOSE v \in S : \A w \in S : w <= v
SmallestOf(S) == CHOOSE v \in S : \A w \in S : v <= w
ReferenceStep(b, table) ==
    IF winner(b) \in {X, O} \/ Full(b)
    THEN (IF HasLine(b, X) THEN 1 ELSE IF HasLine(b, O) THEN -1 ELSE 0)
    ELSE LET vs == {table[[b EXCEPT ![a[1]][a[2]] = player(b)]] :
                        a \in {c \in Cells : b[c[1]][c[2]] = EMPTY}}
         IN  IF player(b) = X THEN LargestOf(vs) ELSE SmallestOf(vs)
\* The tables of the levels 0 .. n in that order, given the table of level
\* n + 1; each table is made explicit before it is used.
RECURSIVE ReferenceTables(_, _)
ReferenceTables(n, above) ==
    IF n < 0 THEN <<>>
    ELSE LET here == [b \in Level(n) |-> ReferenceStep(b, above)] @@ <<>>
         IN  Append(ReferenceTables(n - 1, here), here)
ReferenceLevels == ReferenceTables(9, <<>>)
Reference(b) == ReferenceLevels[10 - count(b, EMPTY)][b]

\* C12: on every board that is not terminal, the value max_value returns
\* when X is to move, and min_value when O is, is the minimax value of the
\* board as the search with no early exit computes it, under each
\* enumeration order; the orders differ in the action only.
C12_ValueIsMinimaxValue ==
    (call.op = "minimax" /\ ~terminal(call.arg)) =>
        call.locals.value = Reference(call.arg)

C12_Witness ==
    /\ call.op = "minimax"
    /\ count(call.arg, EMPTY) = 3
    /\ ~terminal(call.arg)
    /\ call.locals.value = Reference(call.arg)
    /\ \E ord \in Orders : minimax(call.arg, ord) # call.ret

\* C15: in a search started by minimax on a board reachable from
\* initial_state(), every nested call is on a board with one EMPTY cell fewer
\* than its caller's, a call that makes no nested call is on a terminal
\* board, and so the depth of nesting below the first call is at most the
\* number of EMPTY cells of the starting board, and at most 9.
C15_DepthBounded ==
    Searching =>
        /\ call.depth = count(cur, EMPTY) - count(call.arg, EMPTY)
        /\ call.depth <= count(cur, EMPTY)
        /\ call.depth <= 9
        /\ (actions(call.arg) = {}) => terminal(call.arg)

C15_Witness ==
    /\ Searching
    /\ cur = initial_state
    /\ call.depth = 9
    /\ terminal(call.arg)
    /\ actions(call.arg) = {}

\* C16: in a search started by minimax, every board that is not terminal and
\* is passed to max_value has player X, and every such board passed to
\* min_value has player O.
C16_RolesMatchPlayer ==
    (Searching /\ ~terminal(call.arg)) =>
        /\ call.op = "max_value" => player(call.arg) = X
        /\ call.op = "min_value" => player(call.arg) = O

C16_Witness ==
    /\ Searching
    /\ call.op = "min_value"
    /\ call.depth = 4
    /\ player(cur) = O
    /\ ~terminal(call.arg)
    /\ player(call.arg) = O

\* C17: on every board that is not terminal, the action minimax returns is
\* one of actions(board), so result returns a board for it, and the value
\* max_value or min_value pairs with it is -1, 0 or 1.
C17_MoveLegalValueFinite ==
    (call.op = "minimax" /\ ~terminal(call.arg)) =>
        /\ call.ret \in actions(call.arg)
        /\ ~result(call.arg, call.ret).raised
        /\ call.locals.value \in {-1, 0, 1}

C17_Witness ==
    /\ call.op = "minimax"
    /\ ~terminal(call.arg)
    /\ player(call.arg) = O
    /\ call.locals.value = -1
    /\ winner(result(call.arg, call.ret).ret) = O

===========================================================================
